---- MODULE Spec2Model ----
(***************************************************************************)
(* Historical weather ingestion of backend/app/services/weather_service.py *)
(* (WeatherService.upload_historical_data and                              *)
(* WeatherService.upload_multi_location_historical_data) with the helpers  *)
(* they call, over a SQLAlchemy-style session: samples added to a session  *)
(* are pending until a commit appends them to the shared store.            *)
(*                                                                         *)
(* Representation of JSON values: [t |-> tag, v |-> payload] with tag      *)
(*   "null"   None                                                         *)
(*   "num"    a number; v is an integer in the unit of the field that      *)
(*            holds it: 0.1 degree for temperatures, 10^-7 degree for      *)
(*            coordinates, seconds for epochs, 1 for everything else       *)
(*   "numstr" a string that spells the number v                            *)
(*   "str"    any other string; v is its sequence of characters            *)
(*   "date"   a string that spells a calendar date; v holds its parts      *)
(*   "map"    a mapping; v is a function from keys to values               *)
(***************************************************************************)
EXTENDS Integers, Sequences, FiniteSets, TLC

Null == [t |-> "null", v |-> 0]
Num(n) == [t |-> "num", v |-> n]
NumStr(n) == [t |-> "numstr", v |-> n]
Str(s) == [t |-> "str", v |-> s]
Map(m) == [t |-> "map", v |-> m]
DateStr(sep, a, b, c, time, hh, mi, ss) ==
    [t |-> "date",
     v |-> [sep |-> sep, a |-> a, b |-> b, c |-> c, time |-> time,
            hh |-> hh, mi |-> mi, ss |-> ss]]

\* Results of operations that can raise: Ok(value) or Exc(exception name).
Ok(x) == [ok |-> TRUE, v |-> x]
Exc(e) == [ok |-> FALSE, v |-> e]

\* Python truthiness of a JSON value.
Truthy(x) ==
    CASE x.t = "null" -> FALSE
      [] x.t = "num" -> x.v # 0
      [] x.t = "numstr" -> TRUE
      [] x.t = "str" -> x.v # <<>>
      [] x.t = "date" -> TRUE
      [] x.t = "map" -> DOMAIN x.v # {}

\* float(x)
ToFloat(x) ==
    CASE x.t = "num" -> Ok(x.v)
      [] x.t = "numstr" -> Ok(x.v)
      [] x.t = "str" -> Exc("ValueError")
      [] x.t = "date" -> Exc("ValueError")
      [] OTHER -> Exc("TypeError")

\* `key in record` and record.get(key) for a mapping value.
Has(rec, key) == key \in DOMAIN rec.v
Get(rec, key) == IF Has(rec, key) THEN rec.v[key] ELSE Null
GetOr(rec, key, dflt) == IF Has(rec, key) THEN rec.v[key] ELSE dflt

(***************************************************************************)
(* Strings are sequences of one-character strings.                         *)
(***************************************************************************)
LowerChar(ch) ==
    CASE ch = "A" -> "a" [] ch = "B" -> "b" [] ch = "C" -> "c" [] ch = "D" -> "d"
      [] ch = "E" -> "e" [] ch = "F" -> "f" [] ch = "G" -> "g" [] ch = "H" -> "h"
      [] ch = "I" -> "i" [] ch = "J" -> "j" [] ch = "K" -> "k" [] ch = "L" -> "l"
      [] ch = "M" -> "m" [] ch = "N" -> "n" [] ch = "O" -> "o" [] ch = "P" -> "p"
      [] ch = "Q" -> "q" [] ch = "R" -> "r" [] ch = "S" -> "s" [] ch = "T" -> "t"
      [] ch = "U" -> "u" [] ch = "V" -> "v" [] ch = "W" -> "w" [] ch = "X" -> "x"
      [] ch = "Y" -> "y" [] ch = "Z" -> "z" [] OTHER -> ch

Lower(s) == [i \in 1..Len(s) |-> LowerChar(s[i])]

\* SQL LIKE, case-insensitive: % matches any run, _ any one character.
RECURSIVE LikeMatch(_, _)
LikeMatch(p, s) ==
    IF p = <<>> THEN s = <<>>
    ELSE IF Head(p) = "%"
         THEN LikeMatch(Tail(p), s) \/ (s # <<>> /\ LikeMatch(p, Tail(s)))
         ELSE /\ s # <<>>
              /\ (Head(p) = "_" \/ LowerChar(Head(p)) = LowerChar(Head(s)))
              /\ LikeMatch(Tail(p), Tail(s))

\* column.ilike(f"%{needle}%")
ILike(col, needle) == LikeMatch(<<"%">> \o needle \o <<"%">>, col)

\* str.split(): the whitespace-delimited tokens of s.
RECURSIVE SplitFrom(_, _)
SplitFrom(s, cur) ==
    IF s = <<>> THEN (IF cur = <<>> THEN <<>> ELSE <<cur>>)
    ELSE IF Head(s) = " "
         THEN (IF cur = <<>> THEN <<>> ELSE <<cur>>) \o SplitFrom(Tail(s), <<>>)
         ELSE SplitFrom(Tail(s), Append(cur, Head(s)))

Split(s) == SplitFrom(s, <<>>)

(***************************************************************************)
(* Date Normalizer.  An instant is a number of seconds since 1970-01-01    *)
(* 00:00:00 on the naive wall clock (the process runs with TZ=UTC).        *)
(***************************************************************************)
IsLeap(y) == (y % 4 = 0 /\ y % 100 # 0) \/ y % 400 = 0

DaysInMonth(y, m) ==
    CASE m \in {4, 6, 9, 11} -> 30
      [] m = 2 -> (IF IsLeap(y) THEN 29 ELSE 28)
      [] OTHER -> 31

\* Days from 1970-01-01 to the civil date y-m-d (proleptic Gregorian).
DaysFromCivil(y, m, d) ==
    LET yy == IF m <= 2 THEN y - 1 ELSE y
        era == yy \div 400
        yoe == yy - era * 400
        mp == (m + 9) % 12
        doy == (153 * mp + 2) \div 5 + d - 1
        doe == yoe * 365 + yoe \div 4 - yoe \div 100 + doy
    IN  era * 146097 + doe - 719468

ValidDate(y, m, d) ==
    /\ y \in 1..9999
    /\ m \in 1..12
    /\ d >= 1 /\ d <= DaysInMonth(y, m)

ValidTime(hh, mi, ss) == hh \in 0..23 /\ mi \in 0..59 /\ ss \in 0..61

MkInstant(y, m, d, hh, mi, ss) ==
    DaysFromCivil(y, m, d) * 86400 + hh * 3600 + mi * 60 + ss

\* datetime.strptime(date_str, fmt) for the k-th format of date_formats:
\* Ok(instant), or Exc("ValueError") when the text does not fit the format.
Strptime(x, k) ==
    LET p == x.v
        dash(time) == /\ p.sep = "-" /\ p.time = time
                      /\ ValidDate(p.a, p.b, p.c)
                      /\ (time # "none" => ValidTime(p.hh, p.mi, p.ss))
        ymd == MkInstant(p.a, p.b, p.c, p.hh, p.mi, p.ss)
    IN  IF x.t # "date" THEN Exc("ValueError")
        ELSE CASE k = 1 -> IF dash("none") THEN Ok(ymd) ELSE Exc("ValueError")
               [] k = 2 -> IF dash("sp") THEN Ok(ymd) ELSE Exc("ValueError")
               [] k = 3 -> IF dash("T") THEN Ok(ymd) ELSE Exc("ValueError")
               [] k = 4 -> IF dash("TZ") THEN Ok(ymd) ELSE Exc("ValueError")
               [] k = 5 -> IF p.sep = "/" /\ p.time = "none" /\ ValidDate(p.c, p.a, p.b)
                           THEN Ok(MkInstant(p.c, p.a, p.b, 0, 0, 0))
                           ELSE Exc("ValueError")
               [] k = 6 -> IF p.sep = "/" /\ p.time = "none" /\ ValidDate(p.c, p.b, p.a)
                           THEN Ok(MkInstant(p.c, p.b, p.a, 0, 0, 0))
                           ELSE Exc("ValueError")

NumDateFormats == 6

\* Mutant of TryFormats: the formats are tried from the last to the first.
RECURSIVE TryFormats_Reversed(_, _)
TryFormats_Reversed(x, k) ==
    IF k > NumDateFormats THEN Ok(Null)
    ELSE LET r == Strptime(x, NumDateFormats + 1 - k)
         IN  IF r.ok THEN Ok(Num(r.v)) ELSE TryFormats_Reversed(x, k + 1)

RECURSIVE TryFormats(_, _)
TryFormats(x, k) ==
    IF k > NumDateFormats THEN Ok(Null)
    ELSE LET r == Strptime(x, k)
         IN  IF r.ok THEN Ok(Num(r.v)) ELSE TryFormats(x, k + 1)

\* _parse_date_string: Ok(Num(instant)), Ok(Null) when no format parses, or
\* Exc when the value is neither an integer nor a string.
_parse_date_string(x) ==
    CASE x.t = "num" -> Ok(Num(x.v))
      [] x.t = "numstr" -> Ok(Num(x.v))
      [] x.t \in {"str", "date"} -> TryFormats(x, 1)
      [] OTHER -> Exc("TypeError")

(***************************************************************************)
(* Location Descriptor Extractor.  A descriptor (location_info) is a       *)
(* function whose domain is the set of its keys among name, city,          *)
(* latitude, longitude, address.  NoInfo stands for None.                  *)
(***************************************************************************)
NoInfo == [none |-> TRUE]
EmptyDict == [k \in {} |-> Null]
Put(d, k, x) == [j \in DOMAIN d \cup {k} |-> IF j = k THEN x ELSE d[j]]

\* str(x) for a truthy value; a number is one token.
StrOf(x) ==
    CASE x.t = "str" -> x.v
      [] x.t \in {"num", "numstr"} -> <<ToString(x.v)>>
      [] OTHER -> <<"?">>

\* The first field of `fields` that is in the record with a truthy value, or "".
RECURSIVE FirstTruthy(_, _)
FirstTruthy(rec, fields) ==
    IF fields = <<>> THEN ""
    ELSE IF Has(rec, Head(fields)) /\ Truthy(rec.v[Head(fields)])
         THEN Head(fields)
         ELSE FirstTruthy(rec, Tail(fields))

\* The first field of `fields` that is in the record, truthy and a number for
\* float(): Ok(number), or Exc when there is none (lat_value stays None).
RECURSIVE FirstFloat(_, _)
FirstFloat(rec, fields) ==
    IF fields = <<>> THEN Exc("None")
    ELSE IF Has(rec, Head(fields)) /\ Truthy(rec.v[Head(fields)])
            /\ ToFloat(rec.v[Head(fields)]).ok
         THEN ToFloat(rec.v[Head(fields)])
         ELSE FirstFloat(rec, Tail(fields))

\* f"{x:.4f}" and f"{x:.6f}" of a coordinate held in units of 10^-7 degree:
\* the coordinate rounded (half to even) to 10^-4 and to 10^-6 degree.
RoundDiv(x, q) ==
    LET d == x \div q
        r == x % q
    IN  IF 2 * r < q THEN d
        ELSE IF 2 * r > q THEN d + 1
        ELSE IF d % 2 = 0 THEN d ELSE d + 1

Fmt4(x) == ToString(RoundDiv(x, 1000))
Fmt6(x) == ToString(RoundDiv(x, 10))

InfoHas(info, k) == k \in DOMAIN info
\* location_info.get(k) is truthy
InfoTruthy(info, k) ==
    /\ k \in DOMAIN info
    /\ IF k \in {"latitude", "longitude"} THEN info[k] # 0 ELSE info[k] # <<>>

\* Mutant of location_fields: city comes before the other aliases.
location_fields_CityFirst == <<"city", "location_name", "location", "name", "city_name", "address">>

location_fields == <<"location_name", "location", "name", "city", "city_name", "address">>
city_fields == <<"city", "city_name">>
lat_fields == <<"latitude", "lat">>
lon_fields == <<"longitude", "lon">>

\* location_info['name']: the first truthy name alias (city_name once more if
\* none was found).
WithName(rec, info) ==
    LET nf == FirstTruthy(rec, location_fields)
    IN  IF nf # "" THEN Put(info, "name", StrOf(rec.v[nf]))
        ELSE IF Has(rec, "city_name") /\ Truthy(rec.v["city_name"])
        THEN Put(info, "name", StrOf(rec.v["city_name"]))
        ELSE info

\* location_info['city']
WithCity(rec, info) ==
    LET cf == FirstTruthy(rec, city_fields)
    IN  IF cf # "" THEN Put(info, "city", StrOf(rec.v[cf])) ELSE info

\* location_info['latitude'], ['longitude']: only when both were found.
WithCoordinates(info, lat, lon) ==
    IF lat.ok /\ lon.ok
    THEN Put(Put(info, "latitude", lat.v), "longitude", lon.v)
    ELSE info

\* location_info['address']
WithAddress(rec, info) ==
    IF Has(rec, "address") /\ Truthy(rec.v["address"])
    THEN Put(info, "address", StrOf(rec.v["address"]))
    ELSE info

\* A name made from the city or from the coordinates when there is none.
WithSynthesizedName(info) ==
    LET tail == <<" ", "(", Fmt4(info["latitude"]), ",", " ",
                  Fmt4(info["longitude"]), ")">>
    IN  IF ~InfoTruthy(info, "name")
           /\ InfoTruthy(info, "latitude") /\ InfoTruthy(info, "longitude")
        THEN IF InfoTruthy(info, "city")
             THEN Put(info, "name", info["city"] \o tail)
             ELSE Put(info, "name", <<"L", "o", "c", "a", "t", "i", "o", "n">> \o tail)
        ELSE info

\* Must have at least a name or coordinates.
NameOrCoordinates(info) ==
    IF ~InfoTruthy(info, "name")
       /\ ~(InfoTruthy(info, "latitude") /\ InfoTruthy(info, "longitude"))
    THEN Ok(NoInfo)
    ELSE Ok(info)

\* _extract_location_info(record): Ok(descriptor), Ok(NoInfo), or Exc when the
\* record is not a mapping (record.keys()).
_extract_location_info(rec) ==
    IF rec.t # "map" THEN Exc("AttributeError")
    ELSE NameOrCoordinates(
           WithSynthesizedName(
             WithAddress(rec,
               WithCoordinates(WithCity(rec, WithName(rec, EmptyDict)),
                               FirstFloat(rec, lat_fields),
                               FirstFloat(rec, lon_fields)))))

\* _create_location_key(location_info): Ok(key), a sequence of characters, or
\* Exc when location_info is None (None.get).
_create_location_key(info) ==
    IF info = NoInfo THEN Exc("AttributeError")
    ELSE IF InfoTruthy(info, "latitude") /\ InfoTruthy(info, "longitude")
    THEN Ok(<<"coord_", Fmt6(info["latitude"]), "_", Fmt6(info["longitude"])>>)
    ELSE IF InfoTruthy(info, "name") /\ InfoTruthy(info, "city")
    THEN Ok(<<"name_">> \o Lower(info["name"]) \o <<"_">> \o Lower(info["city"]))
    ELSE IF InfoTruthy(info, "name")
    THEN Ok(<<"name_">> \o Lower(info["name"]))
    ELSE Ok(<<"coord_",
              Fmt6(IF InfoHas(info, "latitude") THEN info["latitude"] ELSE 0), "_",
              Fmt6(IF InfoHas(info, "longitude") THEN info["longitude"] ELSE 0)>>)

(***************************************************************************)
(* State.                                                                  *)
(*   locations  the locations table, in storage order                      *)
(*   store      the committed weather_records rows, in insertion order     *)
(*   call       per request slot: the position and the locals of the       *)
(*              ingestion call running in it, and its database session     *)
(***************************************************************************)
VARIABLES locations, store, call

vars == <<locations, store, call>>

Min(S) == CHOOSE x \in S : \A y \in S : x <= y

\* Mutant of tolerances: 0.22 is written for 0.022.
tolerances_Typo == <<10000, 100000, 2200000, 1000000, 5000000, 10000000>>

\* The tolerance ladder, in units of 10^-7 degree.
tolerances == <<10000, 100000, 220000, 1000000, 5000000, 10000000>>

\* Location.latitude.between(lat - tol, lat + tol) and the same for longitude.
InBox(loc, lat, lon, tol) ==
    /\ lat - tol <= loc.latitude /\ loc.latitude <= lat + tol
    /\ lon - tol <= loc.longitude /\ loc.longitude <= lon + tol

\* The filter of a query, besides Location.user_id == user_id.
Satisfies(loc, f) ==
    CASE f.by = "box" -> InBox(loc, f.lat, f.lon, f.tol)
      [] f.by = "name and city" -> ILike(loc.name, f.name) /\ ILike(loc.city, f.city)
      [] f.by = "name" -> ILike(loc.name, f.name)
      [] f.by = "city" -> ILike(loc.city, f.city)

\* Mutant of FirstLocation: of the rows that satisfy the filter the last in
\* storage order is returned.
FirstLocation_Last(user_id, f) ==
    LET hits == {k \in 1..Len(locations) :
                    locations[k].user_id = user_id /\ Satisfies(locations[k], f)}
    IN  IF hits = {} THEN 0 ELSE locations[CHOOSE x \in hits : \A y \in hits : y <= x].id

\* Mutant of FirstLocation: the filter on Location.user_id is missing.
FirstLocation_AnyUser(user_id, f) ==
    LET hits == {k \in 1..Len(locations) : Satisfies(locations[k], f)}
    IN  IF hits = {} THEN 0 ELSE locations[Min(hits)].id

\* Location.query.filter(...).first(): the id of the first row, in storage
\* order, of the user that satisfies the filter; 0 for None.
FirstLocation(user_id, f) ==
    LET hits == {k \in 1..Len(locations) :
                    locations[k].user_id = user_id /\ Satisfies(locations[k], f)}
    IN  IF hits = {} THEN 0 ELSE locations[Min(hits)].id

RECURSIVE CoordinateMatch(_, _, _, _)
CoordinateMatch(user_id, lat, lon, k) ==
    IF k > Len(tolerances) THEN 0
    ELSE LET hit == FirstLocation(user_id, [by |-> "box", lat |-> lat, lon |-> lon,
                                            tol |-> tolerances[k]])
         IN  IF hit # 0 THEN hit ELSE CoordinateMatch(user_id, lat, lon, k + 1)

\* The first part longer than 2 characters that a row's name matches.
RECURSIVE NamePartMatch(_, _)
NamePartMatch(user_id, parts) ==
    IF parts = <<>> THEN 0
    ELSE LET hit == IF Len(Head(parts)) > 2
                    THEN FirstLocation(user_id, [by |-> "name", name |-> Head(parts)])
                    ELSE 0
         IN  IF hit # 0 THEN hit ELSE NamePartMatch(user_id, Tail(parts))

\* The first part longer than 2 characters that a row's city matches.
RECURSIVE CityPartMatch(_, _)
CityPartMatch(user_id, parts) ==
    IF parts = <<>> THEN 0
    ELSE LET hit == IF Len(Head(parts)) > 2
                    THEN FirstLocation(user_id, [by |-> "city", city |-> Head(parts)])
                    ELSE 0
         IN  IF hit # 0 THEN hit ELSE CityPartMatch(user_id, Tail(parts))

Healdsburg == <<"H", "e", "a", "l", "d", "s", "b", "u", "r", "g">>

\* Mutant of _find_matching_location: the whole name is tried before the
\* city alone.
_find_matching_location_NameFirst(user_id, info) ==
    LET hasCoord == InfoTruthy(info, "latitude") /\ InfoTruthy(info, "longitude")
        hasName == InfoTruthy(info, "name")
        hasCity == InfoTruthy(info, "city")
        byCoord == IF hasCoord
                   THEN CoordinateMatch(user_id, info["latitude"], info["longitude"], 1)
                   ELSE 0
        byNameCity == IF hasName /\ hasCity
                      THEN FirstLocation(user_id, [by |-> "name and city",
                                                   name |-> info["name"],
                                                   city |-> info["city"]])
                      ELSE 0
        byCity == IF hasCity
                  THEN FirstLocation(user_id, [by |-> "city", city |-> info["city"]])
                  ELSE 0
        byName == IF hasName
                  THEN FirstLocation(user_id, [by |-> "name", name |-> info["name"]])
                  ELSE 0
        byNamePart == IF hasName THEN NamePartMatch(user_id, Split(info["name"])) ELSE 0
        byCityPart == IF hasCity THEN CityPartMatch(user_id, Split(info["city"])) ELSE 0
    IN  IF byCoord # 0 THEN Ok(byCoord)
        ELSE IF byNameCity # 0 THEN Ok(byNameCity)
        ELSE IF byName # 0 THEN Ok(byName)
        ELSE IF hasName /\ byCity # 0 THEN Ok(byCity)
        ELSE IF byNamePart # 0 THEN Ok(byNamePart)
        ELSE IF byCity # 0 THEN Ok(byCity)
        ELSE IF byCityPart # 0 THEN Ok(byCityPart)
        ELSE IF hasCity /\ info["city"] = Healdsburg THEN Exc("AttributeError")
        ELSE Ok(0)

\* _find_matching_location(user_id, location_info): Ok(location id), Ok(0) for
\* None, or Exc: the model class Location has no attribute `address`.
_find_matching_location(user_id, info) ==
    LET hasCoord == InfoTruthy(info, "latitude") /\ InfoTruthy(info, "longitude")
        hasName == InfoTruthy(info, "name")
        hasCity == InfoTruthy(info, "city")
        byCoord == IF hasCoord
                   THEN CoordinateMatch(user_id, info["latitude"], info["longitude"], 1)
                   ELSE 0
        byNameCity == IF hasName /\ hasCity
                      THEN FirstLocation(user_id, [by |-> "name and city",
                                                   name |-> info["name"],
                                                   city |-> info["city"]])
                      ELSE 0
        byCity == IF hasCity
                  THEN FirstLocation(user_id, [by |-> "city", city |-> info["city"]])
                  ELSE 0
        byName == IF hasName
                  THEN FirstLocation(user_id, [by |-> "name", name |-> info["name"]])
                  ELSE 0
        byNamePart == IF hasName THEN NamePartMatch(user_id, Split(info["name"])) ELSE 0
        byCityPart == IF hasCity THEN CityPartMatch(user_id, Split(info["city"])) ELSE 0
    IN  IF byCoord # 0 THEN Ok(byCoord)
        ELSE IF byNameCity # 0 THEN Ok(byNameCity)
        ELSE IF hasName /\ byCity # 0 THEN Ok(byCity)
        ELSE IF byName # 0 THEN Ok(byName)
        ELSE IF byNamePart # 0 THEN Ok(byNamePart)
        ELSE IF byCity # 0 THEN Ok(byCity)
        ELSE IF byCityPart # 0 THEN Ok(byCityPart)
        ELSE IF hasCity /\ info["city"] = Healdsburg THEN Exc("AttributeError")
        ELSE Ok(0)

(***************************************************************************)
(* The database session of a call.  db.session.add puts a row in `pending`;*)
(* a query first flushes the pending rows (autoflush), so it sees them;    *)
(* other sessions see a row only once a commit has appended it to `store`. *)
(* A flush or commit that fails rolls the transaction back (the pending    *)
(* rows are gone).  After a failed flush, in a query or in a commit, every *)
(* later operation of the session raises until db.session.rollback().      *)
(* After a commit whose flush went through but which the storage refused,  *)
(* whether the session can be used again is left open: `o` names the       *)
(* outcome of a commit,                                                    *)
(*   "ok"           the storage accepts it                                 *)
(*   "fail_usable"  it raises, and the session is usable again             *)
(*   "fail_broken"  it raises, and every later operation raises until      *)
(*                  db.session.rollback()                                  *)
(***************************************************************************)
Outcomes == {"ok", "fail_usable", "fail_broken"}

\* WeatherRecord.temperature is nullable=False: a row with no temperature
\* cannot be flushed.
Flushable(rows) == \A k \in 1..Len(rows) : rows[k].temperature.t = "num"

AfterFailure(o) == IF o = "fail_usable" THEN "active" ELSE "failed"

\* Mutant of QueryExisting: the query does not see the session's pending rows.
QueryExisting_NoAutoflush(cr, location_id, recorded_at) ==
    IF cr.session = "failed"
    THEN [r |-> Exc("PendingRollbackError"), cr |-> cr]
    ELSE [r |-> Ok(\E k \in 1..Len(store) :
                      /\ store[k].location_id = location_id
                      /\ store[k].recorded_at = recorded_at),
          cr |-> cr]

\* WeatherRecord.query.filter_by(location_id=, recorded_at=).first() in the
\* session of call record cr: Ok(TRUE/FALSE) with the call record as it is
\* left, or Exc.
QueryExisting(cr, location_id, recorded_at) ==
    IF cr.session = "failed"
    THEN [r |-> Exc("PendingRollbackError"), cr |-> cr]
    ELSE IF ~Flushable(cr.pending)
    THEN [r |-> Exc("IntegrityError"),
          cr |-> [cr EXCEPT !.pending = <<>>, !.session = "failed"]]
    ELSE LET rows == store \o cr.pending
         IN  [r |-> Ok(\E k \in 1..Len(rows) :
                          /\ rows[k].location_id = location_id
                          /\ rows[k].recorded_at = recorded_at),
              cr |-> cr]

\* Mutant of SessionCommit: the table has a unique constraint on
\* (location_id, recorded_at) that silently drops a colliding row.
SessionCommit_Unique(cr, o) ==
    IF cr.session = "failed"
    THEN [ok |-> FALSE, cr |-> [cr EXCEPT !.commit_failed = TRUE], store |-> store]
    ELSE IF o = "ok" /\ Flushable(cr.pending)
    THEN [ok |-> TRUE, cr |-> [cr EXCEPT !.pending = <<>>],
          store |-> store \o SelectSeq(cr.pending,
                        LAMBDA row : \A k \in 1..Len(store) :
                            \/ store[k].location_id # row.location_id
                            \/ store[k].recorded_at # row.recorded_at)]
    ELSE [ok |-> FALSE,
          cr |-> [cr EXCEPT !.pending = <<>>,
                            !.session = IF Flushable(cr.pending) THEN AfterFailure(o)
                                        ELSE "failed",
                            !.commit_failed = TRUE],
          store |-> store]

\* db.session.commit() in the session of cr: whether it succeeded, the call
\* record and the store as they are left.
SessionCommit(cr, o) ==
    IF cr.session = "failed"
    THEN [ok |-> FALSE, cr |-> [cr EXCEPT !.commit_failed = TRUE], store |-> store]
    ELSE IF o = "ok" /\ Flushable(cr.pending)
    THEN [ok |-> TRUE, cr |-> [cr EXCEPT !.pending = <<>>], store |-> store \o cr.pending]
    ELSE [ok |-> FALSE,
          cr |-> [cr EXCEPT !.pending = <<>>,
                            !.session = IF Flushable(cr.pending) THEN AfterFailure(o)
                                        ELSE "failed",
                            !.commit_failed = TRUE],
          store |-> store]

\* db.session.rollback()
SessionRollback(cr) == [cr EXCEPT !.pending = <<>>, !.session = "active"]

(***************************************************************************)
(* A call record.  Besides the locals of the handler it keeps history for  *)
(* the properties: log (what each record was counted as, in order, and for *)
(* which location and instant), commit_failed, store0 (the store when the  *)
(* call began), run and first (the batch's earlier result when it is       *)
(* ingested again), raced (the call passed the duplicate check for a pair  *)
(* while another call stood between its own check and insert of it),       *)
(* invoked (the keys the resolver was called for, in order).               *)
(***************************************************************************)
NoResult == [success |-> FALSE, error |-> "none"]
NoCur == [location_id |-> 0, recorded_at |-> 0, temperature |-> Null]
EmptyMapping == [k \in {} |-> 0]

IdleCall ==
    [pc |-> "idle", mode |-> "none", arg |-> 0, weather_data |-> Null,
     i |-> 0, total_records |-> 0, stored_records |-> 0, skipped_records |-> 0,
     errors |-> <<>>, location_mapping |-> EmptyMapping,
     pending |-> <<>>, session |-> "active", cur |-> NoCur,
     result |-> NoResult,
     log |-> <<>>, commit_failed |-> FALSE, store0 |-> <<>>,
     run |-> 0, first |-> NoResult, raced |-> FALSE, invoked |-> <<>>]

Record(cr) == cr.weather_data.v[cr.i + 1]

\* `continue`: on to the next record, or past the loop.
Continue(cr, after) ==
    IF cr.i + 1 < cr.total_records
    THEN [cr EXCEPT !.i = @ + 1, !.pc = IF @ = "insert" THEN "check" ELSE @, !.cur = NoCur]
    ELSE [cr EXCEPT !.i = 0, !.pc = after, !.cur = NoCur]

\* errors.append(f"Record {i}: ..."); skipped_records += 1
CountError(cr, msg) ==
    [cr EXCEPT !.errors = Append(@, [idx |-> cr.i, msg |-> msg]),
               !.skipped_records = @ + 1,
               !.log = Append(@, [idx |-> cr.i, ev |-> "error", at |-> <<0, 0>>])]

\* Mutant of CountDuplicate: the duplicate is also recorded as an error.
CountDuplicate_AsError(cr, location_id, recorded_at) ==
    [cr EXCEPT !.errors = Append(@, [idx |-> cr.i, msg |-> "duplicate"]),
               !.skipped_records = @ + 1,
               !.log = Append(@, [idx |-> cr.i, ev |-> "duplicate",
                                  at |-> <<location_id, recorded_at>>])]

\* Mutant of CountDuplicate: the duplicate is not counted as skipped.
CountDuplicate_Uncounted(cr, location_id, recorded_at) ==
    [cr EXCEPT !.log = Append(@, [idx |-> cr.i, ev |-> "duplicate",
                                  at |-> <<location_id, recorded_at>>])]

\* skipped_records += 1 for a duplicate
CountDuplicate(cr, location_id, recorded_at) ==
    [cr EXCEPT !.skipped_records = @ + 1,
               !.log = Append(@, [idx |-> cr.i, ev |-> "duplicate",
                                  at |-> <<location_id, recorded_at>>])]

\* The first of date, dt, dt_iso that is in the record, or "".
RECURSIVE FirstPresent(_, _)
FirstPresent(rec, fields) ==
    IF fields = <<>> THEN ""
    ELSE IF Has(rec, Head(fields)) THEN Head(fields)
    ELSE FirstPresent(rec, Tail(fields))

date_fields == <<"date", "dt", "dt_iso">>

\* `field in record` for a record that is not a mapping: a string is searched
\* for the field as a substring (and holds none), anything else raises.
IsText(rec) == rec.t \in {"str", "numstr", "date"}

(***************************************************************************)
(* Record Builder.  A stored temperature is in units of 1/90 degree        *)
(* Celsius, so that both a value taken as it is (nine units per 0.1        *)
(* degree) and (F - 32) * 5/9 are whole numbers.                           *)
(***************************************************************************)
\* Mutant of AsIs: the single-location path converts from Fahrenheit.
AsIs_FromFahrenheit(v) == (v - 320) * 5

AsIs(v) == 9 * v
FahrenheitToCelsius(v) == (v - 320) * 5

HistoricalData == Str(<<"Historical data">>)
DefaultIcon == Str(<<"01d">>)

\* float(record.get(k, 0)) if record.get(k) else None
OptionalFloat(rec, k) ==
    IF Truthy(Get(rec, k))
    THEN LET f == ToFloat(rec.v[k]) IN IF f.ok THEN Ok(Num(f.v)) ELSE f
    ELSE Ok(Null)

\* record.get(outer, {}).get(k, dflt)
NestedGet(rec, outer, k, dflt) ==
    IF ~Has(rec, outer) THEN Ok(dflt)
    ELSE IF rec.v[outer].t # "map" THEN Exc("AttributeError")
    ELSE Ok(GetOr(rec.v[outer], k, dflt))

\* float(record.get(k, record.get(outer, {}).get(k2, 0)))
\*   if record.get(k) or record.get(outer, {}).get(k2) else None
OptionalNestedFloat(rec, k, outer, k2) ==
    LET inner == NestedGet(rec, outer, k2, Null)
        dflt == NestedGet(rec, outer, k2, Num(0))
        f == ToFloat(GetOr(rec, k, dflt.v))
    IN  IF Truthy(Get(rec, k)) \/ (inner.ok /\ Truthy(inner.v))
        THEN IF ~dflt.ok THEN dflt
             ELSE IF f.ok THEN Ok(Num(f.v)) ELSE f
        ELSE IF ~inner.ok THEN inner
        ELSE Ok(Null)

\* WeatherRecord(...) of the single-location path, with recorded_at set.
BuildSingle(rec, location_id, recorded_at) ==
    LET t == ToFloat(rec.v["temperature"])
        h == OptionalFloat(rec, "humidity")
        p == OptionalFloat(rec, "pressure")
        ws == OptionalFloat(rec, "wind_speed")
        wd == OptionalFloat(rec, "wind_direction")
    IN  IF ~t.ok THEN t
        ELSE IF ~h.ok THEN h
        ELSE IF ~p.ok THEN p
        ELSE IF ~ws.ok THEN ws
        ELSE IF ~wd.ok THEN wd
        ELSE Ok([location_id |-> location_id, recorded_at |-> recorded_at,
                 temperature |-> Num(AsIs(t.v)),
                 humidity |-> h.v, pressure |-> p.v,
                 wind_speed |-> ws.v, wind_direction |-> wd.v,
                 description |-> GetOr(rec, "description", HistoricalData),
                 icon |-> GetOr(rec, "icon", DefaultIcon)])

\* WeatherRecord(...) of the multi-location path (records carry no `weather`
\* list), with recorded_at set.
BuildMulti(rec, location_id, recorded_at, temperature) ==
    LET t == IF Truthy(temperature) THEN ToFloat(temperature) ELSE Ok(0)
        h == OptionalNestedFloat(rec, "humidity", "main", "humidity")
        p == OptionalNestedFloat(rec, "pressure", "main", "pressure")
        ws == OptionalNestedFloat(rec, "wind_speed", "wind", "speed")
        wd == OptionalNestedFloat(rec, "wind_direction", "wind", "deg")
    IN  IF ~t.ok THEN t
        ELSE IF ~h.ok THEN h
        ELSE IF ~p.ok THEN p
        ELSE IF ~ws.ok THEN ws
        ELSE IF ~wd.ok THEN wd
        ELSE Ok([location_id |-> location_id, recorded_at |-> recorded_at,
                 temperature |-> IF Truthy(temperature)
                                 THEN Num(FahrenheitToCelsius(t.v)) ELSE Null,
                 humidity |-> h.v, pressure |-> p.v,
                 wind_speed |-> ws.v, wind_direction |-> wd.v,
                 description |-> GetOr(rec, "description", HistoricalData),
                 icon |-> GetOr(rec, "icon", DefaultIcon)])

\* The temperature the multi-location path selects: main.temp, main.temp_min,
\* temp, temperature, temp_min; Null for None.
SelectTemperature(rec) ==
    LET nested == IF Has(rec, "main") /\ rec.v["main"].t = "map"
                  THEN IF Has(rec.v["main"], "temp") THEN rec.v["main"].v["temp"]
                       ELSE IF Has(rec.v["main"], "temp_min") THEN rec.v["main"].v["temp_min"]
                       ELSE Null
                  ELSE Null
    IN  IF nested.t # "null" THEN nested
        ELSE IF Has(rec, "temp") THEN rec.v["temp"]
        ELSE IF Has(rec, "temperature") THEN rec.v["temperature"]
        ELSE IF Has(rec, "temp_min") THEN rec.v["temp_min"]
        ELSE Null

CommitEvery == 100

\* db.session.add(weather_record); stored_records += 1; a commit when the
\* count is a multiple of 100, whose failure the record's handler catches.
AddAndCount(cr, row, o) ==
    LET added == [cr EXCEPT !.pending = Append(@, row),
                            !.stored_records = @ + 1,
                            !.log = Append(@, [idx |-> cr.i, ev |-> "stored",
                                               at |-> <<row.location_id, row.recorded_at>>])]
        c == SessionCommit(added, o)
    IN  IF added.stored_records % CommitEvery # 0
        THEN [cr |-> Continue(added, "final"), store |-> store]
        ELSE IF c.ok
        THEN [cr |-> Continue(c.cr, "final"), store |-> c.store]
        ELSE [cr |-> Continue(CountError(c.cr, "exception"), "final"), store |-> c.store]

(***************************************************************************)
(* upload_historical_data(location_id, json_data), one record at a time:   *)
(* SingleCheck is the loop body up to the duplicate query, SingleInsert    *)
(* the rest of it.                                                         *)
(***************************************************************************)
List(b) == [t |-> "list", v |-> b]

SuccessReport(cr) ==
    IF cr.mode = "single"
    THEN [success |-> TRUE, total_records |-> cr.total_records,
          stored_records |-> cr.stored_records,
          skipped_records |-> cr.skipped_records, errors |-> cr.errors]
    ELSE [success |-> TRUE, total_records |-> cr.total_records,
          stored_records |-> cr.stored_records,
          skipped_records |-> cr.skipped_records,
          locations_processed |-> Cardinality(DOMAIN cr.location_mapping),
          errors |-> cr.errors]

Failure(msg) == [success |-> FALSE, error |-> msg]

\* The outer handler: db.session.rollback() and a failure result.
Abort(cr) == [SessionRollback(cr) EXCEPT !.pc = "done", !.result = Failure("failed to process")]

\* The call record after json.loads, the list test and the statistics' set-up.
StartCall(mode, arg, data, run, first) ==
    LET cr == [IdleCall EXCEPT !.mode = mode, !.arg = arg, !.weather_data = data,
                               !.run = run, !.first = first, !.store0 = store]
        n == Len(data.v)
    IN  IF data.t # "list"
        THEN [cr EXCEPT !.pc = "done", !.result = Failure("not a list")]
        ELSE IF mode = "multi" /\ n > 0 /\ data.v[1].t # "map"
        THEN Abort(cr)
        ELSE [cr EXCEPT !.total_records = n,
                        !.pc = IF n = 0 THEN "final"
                               ELSE IF mode = "multi" THEN "pass1" ELSE "check"]

\* The duplicate check of the record, whose date parsed to recorded_at.
CheckDuplicate(cr, location_id, recorded_at, temperature, q) ==
    IF ~q.r.ok
    THEN Continue(CountError(q.cr, "exception"), "final")
    ELSE IF q.r.v
    THEN Continue(CountDuplicate(cr, location_id, recorded_at), "final")
    ELSE [cr EXCEPT !.pc = "insert",
                    !.cur = [location_id |-> location_id, recorded_at |-> recorded_at,
                             temperature |-> temperature]]

\* The date stage and the duplicate check; pd is _parse_date_string's result.
CheckDate(cr, location_id, temperature, pd) ==
    IF ~pd.ok
    THEN Continue(CountError(cr, "exception"), "final")
    ELSE IF pd.v.t = "null"
    THEN Continue(CountError(cr, "invalid date"), "final")
    ELSE CheckDuplicate(cr, location_id, pd.v.v, temperature,
                        QueryExisting(cr, location_id, pd.v.v))

SingleCheckMap(cr, rec, df) ==
    IF df = "" \/ ~Has(rec, "temperature")
    THEN Continue(CountError(cr, "missing fields"), "final")
    ELSE CheckDate(cr, cr.arg, Null, _parse_date_string(rec.v[df]))

\* `field in record` on an element that is not a mapping.
NotAMapping(cr, rec) ==
    Continue(CountError(cr, IF IsText(rec) THEN "missing fields" ELSE "exception"), "final")

SingleCheckRecord(cr, rec) ==
    IF rec.t # "map"
    THEN NotAMapping(cr, rec)
    ELSE SingleCheckMap(cr, rec, FirstPresent(rec, date_fields))

SingleCheck(cr) == SingleCheckRecord(cr, Record(cr))

SingleInsert(cr, o) ==
    LET row == BuildSingle(Record(cr), cr.cur.location_id, cr.cur.recorded_at)
    IN  IF ~row.ok
        THEN [cr |-> Continue(CountError(cr, "exception"), "final"), store |-> store]
        ELSE AddAndCount(cr, row.v, o)

(***************************************************************************)
(* upload_multi_location_historical_data(user_id, json_data): FirstPass is *)
(* the body of the first loop, MultiCheck and MultiInsert the body of the  *)
(* second, split at the duplicate query.                                   *)
(***************************************************************************)
\* location_mapping[location_key] = found, and the test of the entry.
FirstPassMapped(cr, key, mapping) ==
    IF mapping[key] = 0
    THEN Continue(CountError([cr EXCEPT !.location_mapping = mapping], "no match"), "check")
    ELSE Continue([cr EXCEPT !.location_mapping = mapping], "check")

\* location_mapping[location_key] = self._find_matching_location(...), where
\* `found` is what the resolver returned or raised.
FirstPassResolve(cr, key, found) ==
    IF ~found.ok
    THEN Continue(CountError(cr, "location exception"), "check")
    ELSE FirstPassMapped(cr, key,
             [k \in DOMAIN cr.location_mapping \cup {key} |->
                 IF k = key THEN found.v ELSE cr.location_mapping[k]])

FirstPassKey(cr, info, key) ==
    IF key \in DOMAIN cr.location_mapping
    THEN FirstPassMapped(cr, key, cr.location_mapping)
    ELSE FirstPassResolve([cr EXCEPT !.invoked = Append(@, key)], key,
                          _find_matching_location(cr.arg, info))

FirstPassInfo(cr, info) ==
    IF ~info.ok
    THEN Continue(CountError(cr, "location exception"), "check")
    ELSE IF info.v = NoInfo
    THEN Continue(CountError(cr, "missing location"), "check")
    ELSE FirstPassKey(cr, info.v, _create_location_key(info.v).v)

FirstPass(cr) == FirstPassInfo(cr, _extract_location_info(Record(cr)))

\* location = location_mapping[location_key]; then the date and the duplicate check.
MultiCheckLocation(cr, rec, df, temperature, key) ==
    IF ~key.ok \/ key.v \notin DOMAIN cr.location_mapping
    THEN Continue(CountError(cr, "exception"), "final")
    ELSE IF cr.location_mapping[key.v] = 0
    THEN Continue(cr, "final")
    ELSE CheckDate(cr, cr.location_mapping[key.v], temperature,
                   _parse_date_string(rec.v[df]))

MultiCheckMap(cr, rec, df, temperature) ==
    IF df = "" \/ temperature.t = "null"
    THEN Continue(CountError(cr, "missing fields"), "final")
    ELSE MultiCheckLocation(cr, rec, df, temperature,
                            _create_location_key(_extract_location_info(rec).v))

MultiCheckRecord(cr, rec) ==
    IF rec.t # "map"
    THEN NotAMapping(cr, rec)
    ELSE MultiCheckMap(cr, rec, FirstPresent(rec, date_fields), SelectTemperature(rec))

MultiCheck(cr) == MultiCheckRecord(cr, Record(cr))

MultiInsert(cr, o) ==
    LET row == BuildMulti(Record(cr), cr.cur.location_id, cr.cur.recorded_at,
                          cr.cur.temperature)
    IN  IF ~row.ok
        THEN [cr |-> Continue(CountError(cr, "exception"), "final"), store |-> store]
        ELSE AddAndCount(cr, row.v, o)

\* Mutant of Finish: the outer handler also deletes what the call committed
\* earlier.
Finish_UndoAll(cr, o) ==
    LET c == SessionCommit(cr, o)
    IN  IF c.ok
        THEN [cr |-> [c.cr EXCEPT !.pc = "done", !.result = SuccessReport(c.cr)],
              store |-> c.store]
        ELSE [cr |-> Abort(c.cr), store |-> cr.store0]

\* The final commit and the report, or the outer handler.
Finish(cr, o) ==
    LET c == SessionCommit(cr, o)
    IN  IF c.ok
        THEN [cr |-> [c.cr EXCEPT !.pc = "done", !.result = SuccessReport(c.cr)],
              store |-> c.store]
        ELSE [cr |-> Abort(c.cr), store |-> c.store]

(***************************************************************************)
(* Inputs.  The locations table holds one location of user 2 and two of    *)
(* user 1; the first two are 0.0005 degree apart.                          *)
(***************************************************************************)
Home == <<"H", "o", "m", "e">>
Cabin == <<"C", "a", "b", "i", "n">>
Paris == <<"P", "a", "r", "i", "s">>
Oslo == <<"O", "s", "l", "o">>
Nowhere == <<"Z", "z", "z">>

HomeLat == 377272000
HomeLon == -1224973000

LocationsTable ==
    << [id |-> 1, user_id |-> 2, name |-> Home, city |-> Paris,
        latitude |-> HomeLat + 5000, longitude |-> HomeLon],
       [id |-> 2, user_id |-> 1, name |-> Home, city |-> Paris,
        latitude |-> HomeLat, longitude |-> HomeLon],
       [id |-> 3, user_id |-> 1, name |-> Cabin, city |-> Oslo,
        latitude |-> 599139000, longitude |-> 107522000] >>

Users == {1, 2}
LocationIds == {2, 3}

Jan15 == DateStr("-", 2024, 1, 15, "none", 0, 0, 0)
Jan15Slash == DateStr("/", 1, 15, 2024, "none", 0, 0, 0)

\* Scenario A's record: no location information.
RecA == Map([date |-> Jan15, temperature |-> Num(590)])
\* The same instant written month-first, at the coordinates of Home, with a
\* humidity of 0 and a description.
RecB == Map([date |-> Jan15Slash, temperature |-> Num(600),
             latitude |-> Num(HomeLat), longitude |-> Num(HomeLon),
             humidity |-> Num(0), description |-> Str(<<"R", "a", "i", "n">>)])
\* Scenario C's record.
RecC == Map([dt |-> Num(1700000000), main |-> Map([temp |-> Num(680)]),
             latitude |-> Num(HomeLat), longitude |-> Num(HomeLon)])
\* Scenario D's record, with and without location information.
RecD == Map([name |-> Str(Cabin)])
RecE == Map(EmptyDict)
\* An element of the list that is not a mapping.
RecF == Num(5)
\* A date no format parses.
RecG == Map([date |-> Str(<<"x">>), temperature |-> Num(10), name |-> Str(Cabin)])
\* A temperature of 0.
RecH == Map([date |-> Jan15, temperature |-> Num(0), name |-> Str(Cabin)])
\* A descriptor that matches no location.
RecJ == Map([date |-> Jan15, temperature |-> Num(500), name |-> Str(Nowhere)])
\* An optional field that is not a number.
RecI == Map([dt |-> Num(1700000000), temperature |-> Num(700), humidity |-> Str(<<"x">>),
             name |-> Str(Cabin)])

\* Two descriptors with the same coordinates, ten degrees and more from every
\* location, and different names.
RecK == Map([date |-> Jan15, temperature |-> Num(500), name |-> Str(Cabin),
             latitude |-> Num(100000000), longitude |-> Num(200000000)])
RecL == Map([date |-> Jan15, temperature |-> Num(500), name |-> Str(Home),
             latitude |-> Num(100000000), longitude |-> Num(200000000)])

\* The city that the resolver treats apart.
RecM == Map([date |-> Jan15, temperature |-> Num(500), city |-> Str(Healdsburg)])

RecordPool == {RecA, RecB, RecC, RecD, RecE, RecF, RecG, RecH, RecI, RecJ, RecK, RecL, RecM}

MaxBatch == 2

RECURSIVE SeqsUpTo(_, _)
SeqsUpTo(S, n) ==
    IF n = 0 THEN {<<>>}
    ELSE LET shorter == SeqsUpTo(S, n - 1)
         IN  shorter \cup {Append(b, x) : b \in {y \in shorter : Len(y) = n - 1}, x \in S}

\* A long batch: record k is taken at second k after that of Scenario C, at Home; every
\* fiftieth record has no temperature.
LongRecord(k) ==
    IF k % 50 = 3
    THEN Map([dt |-> Num(1700000000 + k), latitude |-> Num(HomeLat), longitude |-> Num(HomeLon)])
    ELSE Map([dt |-> Num(1700000000 + k), temperature |-> Num(500 + k),
              latitude |-> Num(HomeLat), longitude |-> Num(HomeLon)])

LongLen == 206

LongList == List([k \in 1..LongLen |-> LongRecord(k)])

ShortLists == {List(b) : b \in SeqsUpTo(RecordPool, MaxBatch)}

\* The requests: every short list and a body that is not a list, for every
\* location of user 1 and for every user; the long list for one of each.
Requests ==
    [mode : {"single"}, arg : LocationIds, data : ShortLists \cup {Null}]
    \cup [mode : {"multi"}, arg : Users, data : ShortLists \cup {Null}]
    \cup {[mode |-> "single", arg |-> 2, data |-> LongList],
          [mode |-> "multi", arg |-> 1, data |-> LongList]}

\* A row stored by an earlier call.
OldRow ==
    [location_id |-> 2, recorded_at |-> MkInstant(2024, 1, 15, 0, 0, 0),
     temperature |-> Num(100), humidity |-> Null, pressure |-> Null,
     wind_speed |-> Null, wind_direction |-> Null,
     description |-> HistoricalData, icon |-> DefaultIcon]

InitialStores == {<<>>, <<OldRow>>}

Calls == {"a", "b"}

Init ==
    /\ locations = LocationsTable
    /\ store \in InitialStores
    /\ call = [c \in Calls |-> IdleCall]

(***************************************************************************)
(* Actions.                                                                *)
(***************************************************************************)
Others(c) == Calls \ {c}

\* A request enters upload_historical_data.
BeginSingle(c, requests, alone) ==
    /\ call[c].pc = "idle"
    /\ alone => \A d \in Others(c) : call[d].pc = "idle"
    /\ \E r \in requests :
          /\ r.mode = "single"
          /\ call' = [call EXCEPT ![c] = StartCall("single", r.arg, r.data, 1, NoResult)]
    /\ UNCHANGED <<locations, store>>

\* A request enters upload_multi_location_historical_data.
BeginMulti(c, requests, alone) ==
    /\ call[c].pc = "idle"
    /\ alone => \A d \in Others(c) : call[d].pc = "idle"
    /\ \E r \in requests :
          /\ r.mode = "multi"
          /\ call' = [call EXCEPT ![c] = StartCall("multi", r.arg, r.data, 1, NoResult)]
    /\ UNCHANGED <<locations, store>>

\* The same request is sent again after the first has returned.
Reingest(c) ==
    /\ call[c].pc = "done"
    /\ call[c].run = 1
    /\ call' = [call EXCEPT ![c] =
                   StartCall(call[c].mode, call[c].arg, call[c].weather_data,
                             2, call[c].result)]
    /\ UNCHANGED <<locations, store>>

FirstPassStep(c) ==
    /\ call[c].pc = "pass1"
    /\ call' = [call EXCEPT ![c] = FirstPass(call[c])]
    /\ UNCHANGED <<locations, store>>

\* The call record after a check, with `raced` noted.
NoteRace(c, cr) ==
    IF cr.pc = "insert"
       /\ \E d \in Others(c) : /\ call[d].pc = "insert"
                               /\ call[d].cur.location_id = cr.cur.location_id
                               /\ call[d].cur.recorded_at = cr.cur.recorded_at
    THEN [cr EXCEPT !.raced = TRUE]
    ELSE cr

CheckStep(c) ==
    /\ call[c].pc = "check"
    /\ call' = [call EXCEPT ![c] = NoteRace(c, IF call[c].mode = "single"
                                                THEN SingleCheck(call[c])
                                                ELSE MultiCheck(call[c]))]
    /\ UNCHANGED <<locations, store>>

InsertStep(c) ==
    /\ call[c].pc = "insert"
    /\ \E o \in Outcomes :
          LET n == IF call[c].mode = "single"
                   THEN SingleInsert(call[c], o)
                   ELSE MultiInsert(call[c], o)
          IN  /\ call' = [call EXCEPT ![c] = n.cr]
              /\ store' = n.store
    /\ UNCHANGED locations

FinishStep(c) ==
    /\ call[c].pc = "final"
    /\ \E o \in Outcomes :
          LET n == Finish(call[c], o)
          IN  /\ call' = [call EXCEPT ![c] = n.cr]
              /\ store' = n.store
    /\ UNCHANGED locations

\* Requests that may overlap: one record each, stored at Home by either mode.
MaxConcBatch == 1

ConcLists == {List(b) : b \in SeqsUpTo({RecB, RecC}, MaxConcBatch)}

ConcRequests ==
    [mode : {"single"}, arg : {2}, data : ConcLists]
    \cup [mode : {"multi"}, arg : {1}, data : ConcLists]

\* One request at a time, in slot "a".
Next ==
    \/ BeginSingle("a", Requests, TRUE)
    \/ BeginMulti("a", Requests, TRUE)
    \/ Reingest("a")
    \/ FirstPassStep("a")
    \/ CheckStep("a")
    \/ InsertStep("a")
    \/ FinishStep("a")

Spec == Init /\ [][Next]_vars

\* Two request slots served concurrently, each call in its own session.
NextConc ==
    \E c \in Calls :
        \/ BeginSingle(c, ConcRequests, FALSE)
        \/ BeginMulti(c, ConcRequests, FALSE)
        \/ FirstPassStep(c)
        \/ CheckStep(c)
        \/ InsertStep(c)
        \/ FinishStep(c)

SpecConc == Init /\ [][NextConc]_vars

(***************************************************************************)
(* The resolver on its own: one-record batches of descriptors against      *)
(* every table of up to MaxLocations of the places below, in every         *)
(* storage order.  The places lie 0, 0.0005, 0.015, 0.15, 2 and 3 degrees  *)
(* from Home.                                                              *)
(***************************************************************************)
BlueCabin == <<"B", "l", "u", "e", " ", "C", "a", "b", "i", "n">>
Rome == <<"R", "o", "m", "e">>
OldLocation == <<"O", "l", "d", " ", "L", "o", "c", "a", "t", "i", "o", "n">>

Place(id, user_id, name, city, dlat, dlon) ==
    [id |-> id, user_id |-> user_id, name |-> name, city |-> city,
     latitude |-> HomeLat + dlat, longitude |-> HomeLon + dlon]

Places ==
    { Place(1, 1, Home, Paris, 0, 0),
      Place(2, 1, Cabin, Oslo, 5000, 0),
      Place(3, 1, Cabin, Paris, 150000, -150000),
      Place(4, 1, Home, Oslo, 0, 1500000),
      Place(5, 1, Nowhere, Oslo, 20000000, 0),
      Place(6, 2, Cabin, Paris, 0, 0),
      Place(7, 1, OldLocation, Oslo, 30000000, 0) }

MaxLocations == 3

ResolveTables ==
    {t \in SeqsUpTo(Places, MaxLocations) :
        \A j, k \in 1..Len(t) : j # k => t[j] # t[k]}

\* A record of a descriptor, with a date and a temperature.
Described(d) ==
    Map([k \in DOMAIN d \cup {"date", "temperature"} |->
            IF k = "date" THEN Jan15
            ELSE IF k = "temperature" THEN Num(500)
            ELSE d[k]])

Descriptors ==
    { [latitude |-> Num(HomeLat), longitude |-> Num(HomeLon)],
      [latitude |-> Num(HomeLat), longitude |-> Num(HomeLon),
       name |-> Str(Cabin), city |-> Str(Paris)],
      [name |-> Str(Cabin), city |-> Str(Paris)],
      [name |-> Str(Cabin), city |-> Str(Rome)],
      [name |-> Str(BlueCabin), city |-> Str(Rome)],
      [name |-> Str(Cabin)],
      [city |-> Str(Paris)],
      [latitude |-> Num(0), longitude |-> Num(HomeLon)],
      [name |-> Str(<<"C", "A", "B", "I", "N">>)],
      [name |-> Str(BlueCabin)],
      [name |-> Str(<<"O", "l", " ", "H", "o">>)],
      [name |-> Str(<<"O", "l", "d", "_", "L", "o", "c", "a", "t", "i", "o", "n">>)],
      [city |-> Str(Healdsburg)] }

ResolveRequests ==
    [mode : {"multi"}, arg : Users, data : {List(<<Described(d)>>) : d \in Descriptors}]

InitResolve ==
    /\ locations \in ResolveTables
    /\ store = <<>>
    /\ call = [c \in Calls |-> IdleCall]

NextResolve ==
    \/ BeginMulti("a", ResolveRequests, TRUE)
    \/ FirstPassStep("a")
    \/ CheckStep("a")
    \/ InsertStep("a")
    \/ FinishStep("a")

SpecResolve == InitResolve /\ [][NextResolve]_vars

(***************************************************************************)
(* The temperature round trip: a stored temperature c, in 1/90 degree      *)
(* Celsius, is read as Fahrenheit, in 0.1 degree, and ingested again by    *)
(* the multi-location path.  The values are the multiples of 5 (0.1 degree *)
(* Fahrenheit) up to MaxStep steps around the one that reads 0 Fahrenheit. *)
(***************************************************************************)
\* WeatherRecord.temperature_fahrenheit: (temperature * 9/5) + 32
temperature_fahrenheit(c) == c \div 5 + 320

MaxStep == 8

CelsiusValues == {5 * (k - 320) : k \in -MaxStep..MaxStep}

RoundTripRecord(c) ==
    Map([dt |-> Num(1700000000), temp |-> Num(temperature_fahrenheit(c)),
         latitude |-> Num(HomeLat), longitude |-> Num(HomeLon)])

RoundTripRequests ==
    [mode : {"multi"}, arg : Users, data : {List(<<RoundTripRecord(c)>>) : c \in CelsiusValues}]

NextRoundTrip ==
    \/ BeginMulti("a", RoundTripRequests, TRUE)
    \/ FirstPassStep("a")
    \/ CheckStep("a")
    \/ InsertStep("a")
    \/ FinishStep("a")

SpecRoundTrip == Init /\ [][NextRoundTrip]_vars

(***************************************************************************)
(* Properties.                                                             *)
(***************************************************************************)
A == call["a"]

Pair(row) == <<row.location_id, row.recorded_at>>
CountAt(rows, p) == Cardinality({k \in 1..Len(rows) : Pair(rows[k]) = p})
OnePerPair(rows) ==
    Cardinality({Pair(rows[k]) : k \in 1..Len(rows)}) = Len(rows)

Returned(cr) == cr.pc = "done"
Reported(cr) == cr.pc = "done" /\ cr.result.success

\* The owner of the location with the given id.
Owner(id) == (CHOOSE l \in {locations[k] : k \in 1..Len(locations)} : l.id = id).user_id

\* C1: with one ingestion call at a time, from a store with at most one row
\* per (location_id, recorded_at), the store never holds two rows for a pair.
C1_OnePerPair == OnePerPair(store)

\* C1's case: a reported batch in which two records with different date texts
\* normalize to the same pair; the first is stored, the second skipped as a
\* duplicate, and the store holds one row for the pair.
C1_Witness ==
    /\ Reported(A)
    /\ \E j, k \in 1..Len(A.log) :
          /\ j < k
          /\ A.log[j].ev = "stored" /\ A.log[k].ev = "duplicate"
          /\ A.log[j].at = A.log[k].at
          /\ CountAt(store, A.log[j].at) = 1
          /\ LET r1 == A.weather_data.v[A.log[j].idx + 1]
                 r2 == A.weather_data.v[A.log[k].idx + 1]
             IN  Has(r1, "date") /\ Has(r2, "date") /\ r1.v["date"] # r2.v["date"]

\* The pairs a call counted as stored.
StoredPairs(cr) == {cr.log[k].at : k \in {j \in 1..Len(cr.log) : cr.log[j].ev = "stored"}}

\* C2: under concurrent calls nothing keeps two rows for one pair out of the
\* store: when both calls counted a record for the same pair as stored and
\* both reported with every commit accepted, the store holds a row from each.
C2_BothInserted ==
    (\A c \in Calls : Reported(call[c]) /\ ~call[c].commit_failed)
        => \A p \in StoredPairs(call["a"]) \cap StoredPairs(call["b"]) : CountAt(store, p) >= 2

\* C2's case: a call passed the duplicate check for a pair while the other
\* stood between its check and its insert of the same pair, both inserted,
\* and the store ends with two rows for the pair.
C2_Witness ==
    /\ \A c \in Calls : Reported(call[c]) /\ ~call[c].commit_failed
    /\ \E c \in Calls : call[c].raced
    /\ \E p \in StoredPairs(call["a"]) \cap StoredPairs(call["b"]) : CountAt(store, p) = 2

\* C3: a multi-location success report satisfies
\* stored_records + skipped_records = total_records.
C3_EveryRecordCountedOnce ==
    (A.mode = "multi" /\ Reported(A))
        => A.result.stored_records + A.result.skipped_records = A.result.total_records

\* C4: a single-location success report of a call in which no commit failed
\* satisfies stored_records + skipped_records = total_records.
C4_SingleCountedOnce ==
    (A.mode = "single" /\ Reported(A) /\ ~A.commit_failed)
        => A.result.stored_records + A.result.skipped_records = A.result.total_records

\* C4's case: a single-location report with a stored record, a duplicate and
\* an error.
C4_Witness ==
    /\ A.mode = "single" /\ Reported(A) /\ ~A.commit_failed
    /\ A.result.stored_records >= 1
    /\ A.result.errors # <<>>
    /\ \E k \in 1..Len(A.log) : A.log[k].ev = "duplicate"

C6_ListAlwaysReported ==
    (Returned(A) /\ A.weather_data.t = "list" /\ ~A.commit_failed)
        => A.result.success /\ A.result.total_records = Len(A.weather_data.v)

\* C7: once a commit has failed, mid-batch or final, the call is over with a
\* failure result: no later record is processed and the failure is not
\* recorded as a record's error with the batch going on.
C7_FlushFailureAborts ==
    A.commit_failed => (Returned(A) /\ ~A.result.success)


C9_OwnLocationsOnly ==
    A.mode = "multi" =>
        /\ \A k \in DOMAIN A.location_mapping :
              A.location_mapping[k] # 0 => Owner(A.location_mapping[k]) = A.arg
        /\ \A k \in 1..Len(A.pending) : Owner(A.pending[k].location_id) = A.arg
        /\ \A k \in Len(A.store0) + 1..Len(store) : Owner(store[k].location_id) = A.arg

\* C9's case: user 1's record is stored at user 1's Home although user 2 has
\* a location, earlier in storage order, inside the same smallest box.
C9_Witness ==
    /\ A.mode = "multi" /\ A.arg = 1 /\ Reported(A)
    /\ \E k \in Len(A.store0) + 1..Len(store) :
          /\ store[k].location_id = 2
          /\ \E j \in 1..Len(locations) :
                /\ locations[j].user_id = 2
                /\ InBox(locations[j], HomeLat, HomeLon, tolerances[1])

HowMany(log, idx, evs) ==
    Cardinality({k \in 1..Len(log) : log[k].idx = idx /\ log[k].ev \in evs})

\* C10: in a success report (every commit accepted) a record with an error
\* entry has exactly one, was counted as skipped exactly once and was not
\* counted as stored.
C10_OneErrorOneSkip ==
    (Reported(A) /\ ~A.commit_failed) =>
        \A idx \in 0..A.total_records - 1 :
            HowMany(A.log, idx, {"error"}) >= 1 =>
                /\ Cardinality({k \in 1..Len(A.errors) : A.errors[k].idx = idx}) = 1
                /\ HowMany(A.log, idx, {"error", "duplicate"}) = 1
                /\ HowMany(A.log, idx, {"stored"}) = 0

\* C11: in a multi-location success report locations_processed is the number
\* of cache entries resolved to a stored Location; entries resolved to no
\* Location are not counted.
C11_ResolvedLocationsCounted ==
    (A.mode = "multi" /\ Reported(A)) =>
        A.result.locations_processed =
            Cardinality({k \in DOMAIN A.location_mapping : A.location_mapping[k] # 0})

\* The rows a call has added: those it committed and those still pending.
Added(cr) == SubSeq(store, Len(cr.store0) + 1, Len(store)) \o cr.pending

\* C12: in multi-location mode a record counted as stored whose selected
\* temperature is a number v, 0 included, has its row with temperature
\* (v - 32) * 5/9, and only a record without date or temperature is failed
\* for missing fields.
C12_EveryNumberConverted ==
    A.mode = "multi" =>
        /\ \A k \in 1..Len(A.log) :
              (A.log[k].ev = "stored"
                  /\ SelectTemperature(A.weather_data.v[A.log[k].idx + 1]).t = "num")
              => \A j \in 1..Len(Added(A)) :
                    Pair(Added(A)[j]) = A.log[k].at
                    => Added(A)[j].temperature =
                          Num(FahrenheitToCelsius(
                              SelectTemperature(A.weather_data.v[A.log[k].idx + 1]).v))
        /\ \A k \in 1..Len(A.errors) :
              (A.errors[k].msg = "missing fields"
                  /\ A.weather_data.v[A.errors[k].idx + 1].t = "map")
              => \/ FirstPresent(A.weather_data.v[A.errors[k].idx + 1], date_fields) = ""
                 \/ SelectTemperature(A.weather_data.v[A.errors[k].idx + 1]).t = "null"

\* C13 (Scenario A): the single record {date: "2024-01-15", temperature: 59.0}
\* ingested in single-location mode against an empty store is reported with
\* stored 1 and skipped 0, and its row has temperature 15.0 degrees Celsius
\* and recorded_at 2024-01-15T00:00:00.
C13_ScenarioA ==
    (A.mode = "single" /\ A.weather_data = List(<<RecA>>) /\ A.store0 = <<>> /\ Reported(A))
        => /\ A.result.stored_records = 1
           /\ A.result.skipped_records = 0
           /\ Len(store) = 1
           /\ store[1].temperature = Num(15 * 90)
           /\ store[1].recorded_at = MkInstant(2024, 1, 15, 0, 0, 0)

\* C13 as the code has it: Scenario A's record is reported with stored 1 and
\* skipped 0 and its row has recorded_at 2024-01-15T00:00:00, with the
\* temperature stored as given, 59.0: the single-location path does not
\* convert.
C13_ScenarioA_AsGiven ==
    (A.mode = "single" /\ A.weather_data = List(<<RecA>>) /\ A.store0 = <<>> /\ Reported(A))
        => /\ A.result.stored_records = 1
           /\ A.result.skipped_records = 0
           /\ Len(store) = 1
           /\ store[1].temperature = Num(59 * 90)
           /\ store[1].recorded_at = MkInstant(2024, 1, 15, 0, 0, 0)

\* C13's case: Scenario A's call has returned its report.
C13_Witness ==
    /\ A.mode = "single" /\ A.weather_data = List(<<RecA>>) /\ A.store0 = <<>>
    /\ Reported(A) /\ Len(store) = 1

\* C14: no step of an ingestion call, whatever the call's outcome, changes
\* the stored Locations or removes or changes a WeatherSample committed
\* before it: the store only grows at its end.
C14_OnlyInserts ==
    [][/\ locations' = locations
       /\ Len(store') >= Len(store)
       /\ SubSeq(store', 1, Len(store)) = store]_vars

\* C14's case: a call that committed rows mid-batch and then returned a
\* failure result, with the row stored before it and the locations as they
\* were.
C14_Witness ==
    /\ Returned(A) /\ ~A.result.success
    /\ A.store0 # <<>>
    /\ Len(store) > Len(A.store0)
    /\ SubSeq(store, 1, Len(A.store0)) = A.store0
    /\ locations = LocationsTable

\* The number of records a call rejected at the duplicate check.
Duplicates(cr) == Cardinality({k \in 1..Len(cr.log) : cr.log[k].ev = "duplicate"})

\* C15: a duplicate-skip counts as skipped and adds no error entry: in every
\* success report skipped_records = len(errors) + the number of duplicate
\* skips, so len(errors) <= skipped_records.
C15_DuplicatesAreNotErrors ==
    Reported(A) =>
        /\ A.result.skipped_records = Len(A.result.errors) + Duplicates(A)
        /\ Len(A.result.errors) <= A.result.skipped_records

\* C15's case: a multi-location report with a duplicate skip and an error.
C15_Witness ==
    /\ Reported(A) /\ A.mode = "multi"
    /\ Duplicates(A) >= 1
    /\ A.result.errors # <<>>

\* The descriptor of a one-record multi-location call and its coordinates.
Descriptor == A.weather_data.v[1]
HasCoordinates == A.mode = "multi" /\ Has(Descriptor, "latitude") /\ Has(Descriptor, "longitude")
Lat == Descriptor.v["latitude"].v
Lon == Descriptor.v["longitude"].v
Box(k) == [by |-> "box", lat |-> Lat, lon |-> Lon, tol |-> tolerances[k]]

\* C16: a Location inside the box of a ladder tolerance is inside the box of
\* every larger ladder tolerance, so a descriptor with a coordinate match at
\* a tolerance has one at every tolerance above it.
C16_MonotonicLadder ==
    HasCoordinates =>
        \A k, k2 \in 1..Len(tolerances) :
            k < k2 =>
                /\ tolerances[k] < tolerances[k2]
                /\ \A j \in 1..Len(locations) :
                      InBox(locations[j], Lat, Lon, tolerances[k])
                          => InBox(locations[j], Lat, Lon, tolerances[k2])
                /\ FirstLocation(A.arg, Box(k)) # 0 => FirstLocation(A.arg, Box(k2)) # 0

\* C16's case: the descriptor was resolved to a Location that is outside the
\* box of 0.01 and inside the boxes of 0.022 and of every tolerance above.
C16_Witness ==
    /\ HasCoordinates /\ A.pc = "check"
    /\ \E j \in 1..Len(locations) :
          /\ locations[j].user_id = A.arg
          /\ \A key \in DOMAIN A.location_mapping : A.location_mapping[key] = locations[j].id
          /\ A.location_mapping # EmptyMapping
          /\ ~InBox(locations[j], Lat, Lon, tolerances[2])
          /\ \A k \in 3..Len(tolerances) : InBox(locations[j], Lat, Lon, tolerances[k])

\* The distance of two coordinates.
Dist(x, y) == IF x >= y THEN x - y ELSE y - x

\* The positions in storage of the caller's Locations within t of the
\* descriptor in latitude and in longitude.
Within(t) ==
    {j \in 1..Len(locations) :
        /\ locations[j].user_id = A.arg
        /\ Dist(locations[j].latitude, Lat) <= t
        /\ Dist(locations[j].longitude, Lon) <= t}

\* The first rung of the ladder with a Location of the caller in its box.
FirstRung == Min({k \in 1..Len(tolerances) : Within(tolerances[k]) # {}})

HasNameAndCity == A.mode = "multi" /\ Has(Descriptor, "name") /\ Has(Descriptor, "city")
DName == Descriptor.v["name"].v
DCity == Descriptor.v["city"].v

\* The positions in storage of the caller's Locations whose name, or city,
\* contains the descriptor's.
NameHits == {j \in 1..Len(locations) :
                locations[j].user_id = A.arg /\ ILike(locations[j].name, DName)}
CityHits == {j \in 1..Len(locations) :
                locations[j].user_id = A.arg /\ ILike(locations[j].city, DCity)}

NoCoordinateMatch == ~HasCoordinates \/ Within(tolerances[Len(tolerances)]) = {}

\* C20: a descriptor with a name and a city and no coordinate match is
\* resolved by name and city, else by city alone, else by the whole name,
\* else by the name's tokens; so with no Location matching both, a Location
\* matching the city wins over a Location matching the whole name.
C20_NameCityThenCityThenName ==
    (HasNameAndCity /\ NoCoordinateMatch /\ A.pc = "check") =>
        LET resolved == IF NameHits \cap CityHits # {}
                        THEN locations[Min(NameHits \cap CityHits)].id
                        ELSE IF CityHits # {} THEN locations[Min(CityHits)].id
                        ELSE IF NameHits # {} THEN locations[Min(NameHits)].id
                        ELSE NamePartMatch(A.arg, Split(DName))
        IN  resolved # 0 =>
                /\ A.location_mapping # EmptyMapping
                /\ \A key \in DOMAIN A.location_mapping : A.location_mapping[key] = resolved

\* C20's case: no Location of the caller matches name and city, one matches
\* the whole name and stands first in storage, another matches the city,
\* and the second is returned.
C20_Witness ==
    /\ HasNameAndCity /\ NoCoordinateMatch /\ A.pc = "check"
    /\ NameHits \cap CityHits = {}
    /\ NameHits # {} /\ CityHits # {}
    /\ Min(NameHits) < Min(CityHits)
    /\ \A key \in DOMAIN A.location_mapping :
          A.location_mapping[key] = locations[Min(CityHits)].id
    /\ A.location_mapping # EmptyMapping

\* C17: a Celsius value c read as Fahrenheit by temperature_fahrenheit and
\* ingested by the multi-location path is stored as c again, for every c,
\* the one that reads 0 Fahrenheit included.
C17_RoundTrip ==
    \A c \in CelsiusValues :
        (A.mode = "multi" /\ A.weather_data = List(<<RoundTripRecord(c)>>)) =>
            \A k \in 1..Len(A.log) :
                A.log[k].ev = "stored" =>
                    \A j \in 1..Len(Added(A)) :
                        Pair(Added(A)[j]) = A.log[k].at => Added(A)[j].temperature = Num(c)

\* What the resolver returns for a record's own descriptor, called without
\* the cache: a location id, 0 for no match, -1 when there is no descriptor
\* or the resolver raises.
Uncached(cr, rec) ==
    IF rec.t # "map" THEN -1
    ELSE IF ~_extract_location_info(rec).ok THEN -1
    ELSE IF _extract_location_info(rec).v = NoInfo THEN -1
    ELSE IF ~_find_matching_location(cr.arg, _extract_location_info(rec).v).ok THEN -1
    ELSE _find_matching_location(cr.arg, _extract_location_info(rec).v).v

\* The cache key of a record with a descriptor.
KeyOf(rec) == _create_location_key(_extract_location_info(rec).v).v

\* C18: after the first pass the cache gives every record the Location, or
\* the no-match, that the resolver returns for the record's own descriptor,
\* whatever records came before it.
C18_CacheTransparent ==
    (A.mode = "multi" /\ A.weather_data.t = "list"
        /\ A.pc \in {"check", "insert", "final", "done"}) =>
        \A n \in 1..Len(A.weather_data.v) :
            (Uncached(A, A.weather_data.v[n]) # -1
                /\ KeyOf(A.weather_data.v[n]) \in DOMAIN A.location_mapping)
            => A.location_mapping[KeyOf(A.weather_data.v[n])] = Uncached(A, A.weather_data.v[n])

\* The descriptor of a one-record call is a latitude/longitude pair and
\* nothing else.
OnlyCoordinates == HasCoordinates /\ ~Has(Descriptor, "name") /\ ~Has(Descriptor, "city")

FirstPassDone == A.pc \in {"check", "insert", "final", "done"}

\* C21: a record whose only location information is a coordinate pair is
\* resolved, and stored, only at a Location of the caller within 1.0 degree
\* in latitude and longitude; without such a Location it gets the no-match
\* error, whatever the Locations are called.
C21_CoordinatesOnlyByProximity ==
    (OnlyCoordinates /\ FirstPassDone) =>
        /\ \A key \in DOMAIN A.location_mapping :
              IF Within(10000000) = {}
              THEN A.location_mapping[key] = 0
              ELSE \E j \in Within(10000000) : A.location_mapping[key] = locations[j].id
        /\ \A k \in 1..Len(Added(A)) :
              \E j \in Within(10000000) : Added(A)[k].location_id = locations[j].id

\* A name alias with a non-empty value, and an alias of `fields` with a
\* number, in the record of a one-record call.
NamedByAlias ==
    \E k \in 1..Len(location_fields) :
        /\ Has(Descriptor, location_fields[k])
        /\ Descriptor.v[location_fields[k]] \notin {Null, Str(<<>>)}
NumberAt(fields) ==
    \E k \in 1..Len(fields) :
        Has(Descriptor, fields[k]) /\ Descriptor.v[fields[k]].t \in {"num", "numstr"}

NoDescriptor == \E k \in 1..Len(A.errors) : A.errors[k].msg = "missing location"

\* C22: the extractor returns no descriptor exactly when the record has no
\* non-empty name alias and lacks a numeric latitude alias or a numeric
\* longitude alias; a numeric pair with a coordinate equal to 0 and no name
\* yields a descriptor.
C22_NoDescriptorIffNothingUsable ==
    (A.mode = "multi" /\ FirstPassDone) =>
        (NoDescriptor <=> (~NamedByAlias /\ ~(NumberAt(lat_fields) /\ NumberAt(lon_fields))))

\* The log entries of the records counted as stored, in the order of counting.
StoredLog(cr) == SelectSeq(cr.log, LAMBDA e : e.ev = "stored")

\* C23: records are handled strictly in input order in both modes: the
\* errors list is in non-decreasing order of record index, and the rows are
\* added to the store in the order of their records.
C23_InputOrder ==
    /\ \A j, k \in 1..Len(A.errors) : j < k => A.errors[j].idx <= A.errors[k].idx
    /\ \A j, k \in 1..Len(StoredLog(A)) : j < k => StoredLog(A)[j].idx < StoredLog(A)[k].idx
    /\ (A.pc # "idle" /\ ~A.commit_failed) =>
          /\ Len(Added(A)) = Len(StoredLog(A))
          /\ \A k \in 1..Len(Added(A)) : Pair(Added(A)[k]) = StoredLog(A)[k].at

Faithful(rec, f) == IF Has(rec, f) THEN rec.v[f] ELSE Null

NumericOptional == {"humidity", "pressure", "wind_speed", "wind_direction"}

\* C25: in both modes the row of a stored record holds, in each optional
\* field, the record's value when the field is present, a numeric 0
\* included, and no value when it is absent; a record whose numeric optional
\* field is present and not a number is not stored and has an error entry.
C25_FieldFidelity ==
    (A.pc # "idle" /\ ~A.commit_failed) =>
        /\ \A k \in 1..Len(StoredLog(A)) :
              \A f \in NumericOptional \cup {"description", "icon"} :
                  Added(A)[k][f] = Faithful(A.weather_data.v[StoredLog(A)[k].idx + 1], f)
        /\ \A n \in 1..A.total_records :
              (/\ A.weather_data.v[n].t = "map"
               /\ \E f \in NumericOptional :
                     /\ Has(A.weather_data.v[n], f)
                     /\ A.weather_data.v[n].v[f].t \notin {"num", "numstr"}) =>
                  /\ HowMany(A.log, n - 1, {"stored"}) = 0
                  /\ Returned(A) => HowMany(A.log, n - 1, {"error"}) > 0

(***************************************************************************)
(* The Date Normalizer over a range of raw values: one call at a time of   *)
(* either mode, from the store of Init, on a batch of two records at Home. *)
(* The first record's date is an integer, a text none of the formats       *)
(* parses, a dash date with or without a time, or a slash date of 2024     *)
(* with both numbers in 1..MaxNumber; the second record is good.           *)
(***************************************************************************)
MaxNumber == 13

DateValues ==
    {Num(1700000000), NumStr(1700000000), Str(<<"x">>)}
    \cup {DateStr("/", a, b, 2024, "none", 0, 0, 0) : a, b \in 1..MaxNumber}
    \cup {DateStr("-", 2024, m, d, "none", 0, 0, 0) : m \in {2, MaxNumber}, d \in {29, 30}}
    \cup {DateStr("-", 2024, 2, 29, time, hh, 30, 0) : time \in {"sp", "T", "TZ"}, hh \in {14, 24}}

DateRecord(x) ==
    Map([date |-> x, temperature |-> Num(500),
         latitude |-> Num(HomeLat), longitude |-> Num(HomeLon)])

DateRequests ==
    {[mode |-> m, arg |-> IF m = "single" THEN 2 ELSE 1,
      data |-> List(<<DateRecord(x), DateRecord(Num(1700000001))>>)] :
        m \in {"single", "multi"}, x \in DateValues}

NextDates ==
    \/ BeginSingle("a", DateRequests, TRUE)
    \/ BeginMulti("a", DateRequests, TRUE)
    \/ FirstPassStep("a")
    \/ CheckStep("a")
    \/ InsertStep("a")
    \/ FinishStep("a")

SpecDates == Init /\ [][NextDates]_vars

\* The raw date of the first record of the call, and the formats, by their
\* position in date_formats, that parse it.
RawDate == A.weather_data.v[1].v["date"]
Fits == {k \in 1..NumDateFormats : Strptime(RawDate, k).ok}
IsInteger == RawDate.t \in {"num", "numstr"}
SlashDate == RawDate.t = "date" /\ RawDate.v.sep = "/"

\* The first record got as far as the duplicate check with the given instant.
ReadAs(e, instant) == e.ev \in {"stored", "duplicate"} /\ e.at[2] = instant

C26_Witness_DayFirst ==
    /\ Reported(A) /\ SlashDate
    /\ RawDate.v.a = 13 /\ RawDate.v.b = 6
    /\ \E k \in 1..Len(A.log) :
          /\ A.log[k].idx = 0 /\ A.log[k].ev = "stored"
          /\ A.log[k].at[2] = MkInstant(2024, 6, 13, 0, 0, 0)

\* s contains sub, ignoring case.
Contains(s, sub) ==
    \E i \in 0..Len(s) - Len(sub) : Lower(SubSeq(s, i + 1, i + Len(sub))) = Lower(sub)

\* The descriptor of a one-record call is a name and nothing else.
NameOnly ==
    /\ A.mode = "multi" /\ Has(Descriptor, "name")
    /\ ~Has(Descriptor, "city") /\ ~HasCoordinates

\* The positions in storage of the caller's Locations whose name contains
\* the descriptor's name, and of those whose name contains one of its tokens
\* of more than 2 characters.
WholeNameHits ==
    {j \in 1..Len(locations) :
        locations[j].user_id = A.arg /\ Contains(locations[j].name, DName)}
TokenHits ==
    {j \in 1..Len(locations) :
        /\ locations[j].user_id = A.arg
        /\ \E k \in 1..Len(Split(DName)) :
              Len(Split(DName)[k]) > 2 /\ Contains(locations[j].name, Split(DName)[k])}

\* C27: a descriptor with a name and neither coordinates nor city resolves
\* to a Location of the caller whose name contains the name, ignoring case,
\* if there is one; else to one whose name contains a token of the name
\* longer than 2 characters; else to no match.
C27_WholeNameThenTokens ==
    (NameOnly /\ A.pc = "check") =>
        /\ A.location_mapping # EmptyMapping
        /\ \A key \in DOMAIN A.location_mapping :
              IF WholeNameHits # {}
              THEN \E j \in WholeNameHits : A.location_mapping[key] = locations[j].id
              ELSE IF TokenHits # {}
              THEN \E j \in TokenHits : A.location_mapping[key] = locations[j].id
              ELSE A.location_mapping[key] = 0

\* The descriptor the extractor makes of the record of a one-record call.
Info == _extract_location_info(Descriptor).v

\* s contains text or one of its tokens of more than 2 characters.
ContainsSome(s, text) ==
    \/ Contains(s, text)
    \/ \E k \in 1..Len(Split(text)) : Len(Split(text)[k]) > 2 /\ Contains(s, Split(text)[k])

\* The Location satisfies one of the five strategies for the descriptor.
Matches(loc) ==
    \/ /\ InfoHas(Info, "latitude") /\ InfoHas(Info, "longitude")
       /\ Dist(loc.latitude, Info["latitude"]) <= 10000000
       /\ Dist(loc.longitude, Info["longitude"]) <= 10000000
    \/ InfoHas(Info, "name") /\ ContainsSome(loc.name, Info["name"])
    \/ InfoHas(Info, "city") /\ ContainsSome(loc.city, Info["city"])

Candidates ==
    {j \in 1..Len(locations) : locations[j].user_id = A.arg /\ Matches(locations[j])}

\* C28: the resolver returns a Location only when it satisfies one of the
\* five strategies for the descriptor (the coordinate box of a ladder
\* tolerance, or a substring or token match, ignoring case, of name or
\* city); when no Location of the caller satisfies any, the outcome is no
\* match.
C28_OnlyTheFiveStrategies ==
    (A.mode = "multi" /\ A.pc = "check" /\ Info # NoInfo) =>
        /\ \A key \in DOMAIN A.location_mapping :
              A.location_mapping[key] # 0 =>
                  \E j \in Candidates : A.location_mapping[key] = locations[j].id
        /\ Candidates = {} =>
              /\ A.location_mapping # EmptyMapping
              /\ \A key \in DOMAIN A.location_mapping : A.location_mapping[key] = 0
              /\ A.errors = <<[idx |-> 0, msg |-> "no match"]>>

(***************************************************************************)
(* The extractor over the name and city aliases: one multi-location call   *)
(* at a time, from the state of Init, on one record in which each of the   *)
(* six aliases is absent, empty, or holds a text of its own.               *)
(***************************************************************************)
AliasText(f) ==
    CASE f = "location_name" -> <<"l", "n">>
      [] f = "location" -> <<"l", "o">>
      [] f = "name" -> <<"c", "a", "b", "i", "n">>
      [] f = "city" -> <<"o", "s", "l", "o">>
      [] f = "city_name" -> <<"c", "n">>
      [] f = "address" -> <<"a", "d">>

Aliases == {location_fields[k] : k \in 1..Len(location_fields)}

\* The record in which the aliases of `full` hold their text and those of
\* `empty` the empty text.
AliasRecord(full, empty) ==
    Map([f \in full \cup empty \cup {"date", "temperature"} |->
            IF f = "date" THEN Jan15
            ELSE IF f = "temperature" THEN Num(500)
            ELSE IF f \in full THEN Str(AliasText(f)) ELSE Str(<<>>)])

AliasRequests ==
    [mode : {"multi"}, arg : Users,
     data : {List(<<AliasRecord(full, empty)>>) :
                full \in SUBSET Aliases, empty \in SUBSET Aliases}]

NextAliases ==
    \/ BeginMulti("a", AliasRequests, TRUE)
    \/ FirstPassStep("a")
    \/ CheckStep("a")
    \/ InsertStep("a")
    \/ FinishStep("a")

SpecAliases == Init /\ [][NextAliases]_vars

\* The aliases in the order of their priority, and the first of them that
\* the record of a one-record call holds with a non-empty value ("" if none).
NameAliases == <<"location_name", "location", "name", "city", "city_name", "address">>
CityAliases == <<"city", "city_name">>
NonEmptyAt(order) ==
    {k \in 1..Len(order) : Has(Descriptor, order[k]) /\ Descriptor.v[order[k]] # Str(<<>>)}
FirstNonEmpty(order) ==
    IF NonEmptyAt(order) = {} THEN "" ELSE order[Min(NonEmptyAt(order))]

\* The cache key of the descriptor with the name and the city that the
\* first non-empty aliases give (the texts are in lower case).
ExpectedKey ==
    <<"name_">> \o Descriptor.v[FirstNonEmpty(NameAliases)].v
        \o (IF FirstNonEmpty(CityAliases) = "" THEN <<>>
            ELSE <<"_">> \o Descriptor.v[FirstNonEmpty(CityAliases)].v)

\* C29: the descriptor's name is the value of the first of location_name,
\* location, name, city, city_name, address that the record holds with a
\* non-empty value, and its city the first non-empty of city, city_name,
\* whatever other aliases the record holds: the call caches the outcome
\* under the key made of exactly these two.
C29_FirstAliasWins ==
    (A.mode = "multi" /\ A.pc \in {"check", "insert", "final"}
        /\ A.weather_data.t = "list" /\ FirstNonEmpty(NameAliases) # "") =>
        DOMAIN A.location_mapping = {ExpectedKey}

\* C29's case: location_name is empty; location, name, city and city_name
\* hold a text; the name is that of location and the city that of city.
C29_Witness ==
    /\ A.mode = "multi" /\ A.pc = "check"
    /\ A.weather_data = List(<<AliasRecord({"location", "name", "city", "city_name"},
                                           {"location_name"})>>)
    /\ DOMAIN A.location_mapping = {<<"name_", "l", "o", "_", "o", "s", "l", "o">>}

\* C30: within one multi-location call the resolver is called at most once
\* for each descriptor key, and the cache is empty when the call begins.
C30_OncePerKey ==
    /\ \A j, k \in 1..Len(A.invoked) : j # k => A.invoked[j] # A.invoked[k]
    /\ (A.pc = "pass1" /\ A.i = 0) => A.location_mapping = EmptyMapping

====
